---- MODULE Spec2Model ----
(***************************************************************************)
(* Batch orchestration scripts of e-dream-ai/engines:                      *)
(*   scripts/run_wan_i2v_batch.py   (identifier dedup, upload, submit)     *)
(*   scripts/run_uprez_batch.py     (marker dedup, pagination, marking)    *)
(*   scripts/run_qwen_image_batch.py (submit, poll, download)              *)
(*                                                                         *)
(* Text is modelled as a sequence of tokens.  The token " " is one         *)
(* whitespace character, the token "BATCH_IDENTIFIER:" is the marker text, *)
(* every other token is a run of non-whitespace characters that does not   *)
(* contain the marker.                                                     *)
(***************************************************************************)
EXTENDS Integers, Sequences, FiniteSets, TLC

\* ------------------------------------------------------------------ bounds
\* most images found in the image directory
MaxImages == 2
\* most entries of job.json "combos"
MaxCombos == 2
\* most items the configured playlist holds before the first run
MaxPre == 1
\* most jobs a polling loop starts with
MaxJobs == 2
\* get_playlist_items page size: 100 in the source (line 35), scaled down
take == 2
\* most items of the source playlist
MaxItems == 5
\* longest dream description, in characters
MaxDescLen == 3
\* longest marker, in characters
MaxMarkerLen == 2
\* most update_dream_description calls in a row on one dream
MaxMarkCalls == 2
\* most remote calls that fail (raise, or answer without the expected field)
\* in one behaviour
MaxFaults == 1

\* ------------------------------------------------------------- text helpers
None == <<>>

RECURSIVE DropSpaces(_)
DropSpaces(s) ==
    IF s = <<>> THEN <<>>
    ELSE IF Head(s) = " " THEN DropSpaces(Tail(s)) ELSE s

RECURSIVE TakeWord(_)
TakeWord(s) ==
    IF s = <<>> \/ Head(s) = " " THEN <<>>
    ELSE <<Head(s)>> \o TakeWord(Tail(s))

\* parts.split()[0] if parts.split() else ""
FirstWord(s) == TakeWord(DropSpaces(s))

Marker == "BATCH_IDENTIFIER:"

HasMarker(text) == \E i \in 1..Len(text) : text[i] = Marker

FirstMarker(text) == CHOOSE i \in 1..Len(text) :
    text[i] = Marker /\ \A j \in 1..(i - 1) : text[j] # Marker

\* text.split("BATCH_IDENTIFIER:")[1], for a text that holds the marker
PartOne(text) ==
    LET rest == SubSeq(text, FirstMarker(text) + 1, Len(text))
    IN  IF HasMarker(rest) THEN SubSeq(rest, 1, FirstMarker(rest) - 1) ELSE rest

\* position of the first element equal to x: list.index(x) + 1
IndexOf(list, x) == CHOOSE i \in 1..Len(list) :
    list[i] = x /\ \A j \in 1..(i - 1) : list[j] # x

\* ------------------------------------------------------- inputs of a run
\* The image directory: file names in the order sorted() gives them.
ImagePool == << <<"a", " ", "b", ".png">>, <<"a", ".png">>, <<"b", ".png">> >>

\* Entries that job.json "combos" may hold.
ComboPool == {"slow zoom", "pan left"}

\* hashlib.md5(combo.encode()).hexdigest()[:8]
md5_8(combo) ==
    CASE combo = ""          -> "d41d8cd9"
      [] combo = "slow zoom" -> "0c1b7437"
      [] combo = "pan left"  -> "603572ca"

\* Path.stem: the name without its last suffix
stem(image_path) == SubSeq(image_path, 1, Len(image_path) - 1)

create_job_identifier(image_path, combo_prompt) ==
    image_path \o <<":">> \o <<md5_8(combo_prompt)>>

\* f"Batch generation. {desc_identifier}"
BatchDescription(identifier) ==
    <<"Batch", " ", "generation.", " ", Marker>> \o identifier

\* f"{image_path.stem}_combo-{combo_idx}"
DreamName(image_path, combo_idx) == stem(image_path) \o <<"_combo-", ToString(combo_idx)>>

\* the request main() hands to create_dream_from_prompt
CreateRequest(image_path, combos, combo) ==
    [name        |-> DreamName(image_path, IndexOf(combos, combo)),
     description |-> BatchDescription(create_job_identifier(image_path, combo))]

\* a playlist item wrapping a dream
DreamItem(dream) == [type |-> "dream", dreamItem |-> <<dream>>]

\* a playlist item that is no dream (a nested playlist)
OtherItem == [type |-> "playlist", dreamItem |-> <<>>]

\* ------------------------------------------------------- dedup reconciler
\* the identifiers one playlist item contributes (lines 75-86)
ItemIdentifiers(item) ==
    IF item.type = "dream" /\ item.dreamItem # <<>>
    THEN LET dream == item.dreamItem[1]
             text_to_check == dream.description \o <<" ">> \o dream.name
         IN  IF HasMarker(text_to_check)
             THEN LET identifier == FirstWord(PartOne(text_to_check))
                  IN  IF identifier # <<>> THEN {identifier} ELSE {}
             ELSE {}
    ELSE {}

\* get_existing_dream_identifiers: n items were read before the scan ended;
\* n < Len(items) is a scan cut short by an exception, which the function
\* catches to return what it has.
get_existing_dream_identifiers(items, n) ==
    UNION {ItemIdentifiers(items[k]) : k \in 1..n}

\* ------------------------------------------------------------------ state
VARIABLES
    \* configuration and inputs (fixed over a behaviour)
    job_config,          \* job.json: [loaded, image_path, combos, playlist_uuid, playlist]
    images,              \* sorted list of image file names
    \* remote job store
    playlists,           \* playlist uuid -> list of items
    create_calls,        \* create_dream_from_prompt calls of this run
    faults,              \* remote calls that failed so far
    \* main() of run_wan_i2v_batch.py
    run,                 \* "first" | "second" invocation of the script
    pc,
    combos,
    playlist_uuid,
    existing_identifiers,
    uploaded_image_map,
    source_dream_uuid,
    image_idx,
    combo_pos,
    active_dreams,
    job_count,
    skipped_count,
    failed_count,
    \* what the run did (history)
    scan,                \* how the reconciliation of this run ended
    upload_calls,        \* upload_file calls of this run: <<image, outcome>>
    prior                \* how the first run ended, kept for the second

VARIABLES
    \* the polling loop that ends each script's main()
    script,              \* "wan" | "uprez" | "qwen": whose loop this is
    poll_pc,
    active_jobs,         \* the job uuids submitted, in submission order
    pending,             \* wan, uprez: set of uuids still polled
    pending_list,        \* qwen: list of uuids still polled
    completed,           \* wan, uprez: uuids seen terminal in this round
    remaining,           \* qwen: uuids kept for the next round
    todo,                \* wan, uprez: uuids the for loop has yet to visit
    qpos,                \* qwen: position of the for loop in pending_list
    elapsed,             \* time.time() - start_time
    rounds,              \* rounds of the while loop started
    observed,            \* uuid -> what its query of this round gave
    queries,             \* uuid -> get_dream calls of this round
    seen_terminal,       \* uuids a query ever showed "processed" or "failed"
    report,              \* what the script prints after the loop
    seen_failed,         \* uuids a query ever showed "failed"
    fetched,             \* qwen: uuid -> the artifact fetch of this round
    downloaded_count     \* qwen: images downloaded

pollVars == <<script, poll_pc, active_jobs, pending, pending_list, completed,
              remaining, todo, qpos, elapsed, rounds, observed, queries,
              seen_terminal, report, seen_failed, fetched, downloaded_count>>

VARIABLES
    \* get_all_playlist_dreams of run_uprez_batch.py
    page_pc,
    source_items,        \* the source playlist: item number -> "dream" | "other"
    all_dreams,          \* item numbers of the dreams collected
    skip,
    page_calls,          \* the skip of every get_playlist_items call
    page_seen,           \* item numbers the loop has iterated over, in order
    page_error           \* a page request raised

pageVars == <<page_pc, source_items, all_dreams, skip, page_calls, page_seen,
              page_error>>

VARIABLES
    \* update_dream_description of run_uprez_batch.py, called on one dream
    description,         \* the dream's description in the store
    marker,
    initial_description, \* the description before the first call
    mark_calls           \* one record per call made

markVars == <<description, marker, initial_description, mark_calls>>

VARIABLES
    \* main() of run_uprez_batch.py
    uz_config,           \* uprez-config.json: [loaded, playlist_uuid, existing_playlist_uuid]
    uz_run,              \* "first" | "second" invocation of the script
    uz_pc,
    uz_faults,           \* remote calls of the uprez runs that failed so far
    descriptions,        \* the store: item number -> description of that dream
    dreams_to_process,   \* item numbers of the dreams found without the marker
    uz_pos,              \* position of the current for loop
    uz_active_jobs,      \* active_jobs: the uuids of the jobs started
    uz_checks,           \* item number -> what is_dream_already_uprezed saw
    uz_creates,          \* create_dream_from_prompt calls of this run
    uz_remote,           \* main() has made a call on the client
    uz_prior,            \* the dreams the first run created a job for
    uz_prior_failed      \* the dreams whose creation call raised in the first run

uprezVars == <<uz_config, uz_run, uz_pc, uz_faults, descriptions,
               dreams_to_process, uz_pos, uz_active_jobs, uz_checks, uz_creates,
               uz_remote, uz_prior, uz_prior_failed>>

VARIABLES
    \* main() of run_qwen_image_batch.py up to the polling loop
    qw_config,           \* qwen-image-config.json: [loaded, prompt, num_generations]
    qw_pc,
    qw_idx,              \* idx of "for idx in range(1, num_generations + 1)"
    qw_active_jobs,      \* active_jobs: <<uuid, idx>> of the jobs started
    qw_creates,          \* create_dream_from_prompt calls: [idx, ok]
    qw_faults            \* create calls that failed so far

qwenVars == <<qw_config, qw_pc, qw_idx, qw_active_jobs, qw_creates, qw_faults>>

VARIABLES
    \* run_wan_i2v_batch.py 201-232: the URL of one uploaded image
    rs_pc,
    attempt,             \* "for attempt in range(max_retries)"
    rs_image_url,        \* image_url: "" is None
    rs_source,           \* source_dream_uuid as line 227 or 230 sets it
    rs_warning,          \* the warning of line 229 was printed
    rs_sleeps,           \* time.sleep(0.5) calls made
    rs_slept,            \* the last attempt made was followed by a sleep
    rs_log,              \* what each get_dream call gave
    rs_fetched           \* the dream the last get_dream call returned

resolveVars == <<rs_pc, attempt, rs_image_url, rs_source, rs_warning, rs_sleeps,
                 rs_slept, rs_log, rs_fetched>>

VARIABLES
    \* run_wan_i2v_batch.py 238-272 for two settings of one image
    id_pc,
    id_image,            \* the image file name
    id_settings,         \* <<first, second>>: the job.json values and the combo
    id_index,            \* the identifiers of the jobs created so far
    id_requests          \* the create_dream_from_prompt requests made

identVars == <<id_pc, id_image, id_settings, id_index, id_requests>>

wanVars == <<job_config, images, playlists, create_calls, faults, run, pc, combos,
             playlist_uuid, existing_identifiers, uploaded_image_map,
             source_dream_uuid, image_idx, combo_pos, active_dreams, job_count,
             skipped_count, failed_count, scan, upload_calls, prior>>

\* the variables a run of the wan-i2v submission leaves alone
notWan == <<resolveVars, identVars, pollVars, pageVars, markVars, uprezVars, qwenVars>>

\* the variables the polling loop leaves alone
notPoll == <<resolveVars, identVars, wanVars, pageVars, markVars, uprezVars, qwenVars>>

\* the variables get_all_playlist_dreams leaves alone
notPage == <<resolveVars, identVars, wanVars, pollVars, markVars, uprezVars, qwenVars>>

\* the variables update_dream_description leaves alone
notMark == <<resolveVars, identVars, wanVars, pollVars, pageVars, uprezVars, qwenVars>>

\* the variables main() of run_uprez_batch.py leaves alone outside its scan
notUprez == <<wanVars, pollVars, markVars, qwenVars, resolveVars, identVars>>

\* the variables the qwen-image submission leaves alone
notQwen == <<wanVars, pollVars, pageVars, markVars, uprezVars, resolveVars,
             identVars>>

\* the variables the URL resolution leaves alone
notResolve == <<wanVars, pollVars, pageVars, markVars, uprezVars, qwenVars,
                identVars>>

\* the variables the derivation of identifiers leaves alone
notIdent == <<wanVars, pollVars, pageVars, markVars, uprezVars, qwenVars,
              resolveVars>>

vars == <<wanVars, pollVars, pageVars, markVars, uprezVars, qwenVars, resolveVars,
          identVars>>

\* get_all_playlist_dreams while it does not run
PageIdle ==
    /\ page_pc = "idle"
    /\ source_items = <<>>
    /\ all_dreams = <<>>
    /\ skip = 0
    /\ page_calls = <<>>
    /\ page_seen = <<>>
    /\ page_error = FALSE

\* update_dream_description while it does not run
MarkIdle ==
    /\ description = <<>>
    /\ marker = <<>>
    /\ initial_description = <<>>
    /\ mark_calls = <<>>

\* main() of run_uprez_batch.py while it does not run
UprezIdle ==
    /\ uz_config = [loaded |-> FALSE, playlist_uuid |-> FALSE,
                    existing_playlist_uuid |-> FALSE]
    /\ uz_run = "none"
    /\ uz_pc = "idle"
    /\ uz_faults = 0
    /\ descriptions = <<>>
    /\ dreams_to_process = <<>>
    /\ uz_pos = 1
    /\ uz_active_jobs = <<>>
    /\ uz_checks = <<>>
    /\ uz_creates = <<>>
    /\ uz_remote = FALSE
    /\ uz_prior = {}
    /\ uz_prior_failed = {}

\* a get_dream call that gave no dream: none made yet, or the call raised
NoDream == [original_video |-> "", video |-> "", thumbnail |-> ""]

\* the URL resolution while it does not run
ResolveIdle ==
    /\ rs_pc = "idle"
    /\ attempt = 0
    /\ rs_image_url = ""
    /\ rs_source = ""
    /\ rs_warning = FALSE
    /\ rs_sleeps = 0
    /\ rs_slept = FALSE
    /\ rs_log = <<>>
    /\ rs_fetched = NoDream

\* the derivation of identifiers while it does not run
IdentIdle ==
    /\ id_pc = "idle"
    /\ id_image = <<>>
    /\ id_settings = <<>>
    /\ id_index = {}
    /\ id_requests = <<>>

\* main() of run_qwen_image_batch.py while it does not run
QwenIdle ==
    /\ qw_config = [loaded |-> FALSE, prompt |-> FALSE, num_generations |-> 1]
    /\ qw_pc = "idle"
    /\ qw_idx = 1
    /\ qw_active_jobs = <<>>
    /\ qw_creates = <<>>
    /\ qw_faults = 0

\* the state of the polling loop while it does not run
PollIdle ==
    /\ script = "none"
    /\ poll_pc = "idle"
    /\ active_jobs = <<>>
    /\ pending = {}
    /\ pending_list = <<>>
    /\ completed = {}
    /\ remaining = <<>>
    /\ todo = {}
    /\ qpos = 1
    /\ elapsed = 0
    /\ rounds = 0
    /\ observed = <<>>
    /\ queries = <<>>
    /\ seen_terminal = {}
    /\ report = "none"
    /\ seen_failed = {}
    /\ fetched = <<>>
    /\ downloaded_count = 0

\* ------------------------------------------------------------ initial state
\* the elements of pool whose position is in sel, in the pool's order
RECURSIVE Pick(_, _, _)
Pick(pool, sel, i) ==
    IF i > Len(pool) THEN <<>>
    ELSE (IF i \in sel THEN <<pool[i]>> ELSE <<>>) \o Pick(pool, sel, i + 1)

\* lists of at most n elements of S
SeqsUpTo(S, n) == UNION {[1..m -> S] : m \in 0..n}

\* combos = job_config.get("combos", []); if not combos: combos = [""]
EffectiveCombos(cfg) == IF cfg.combos = <<>> THEN <<"">> ELSE cfg.combos

\* the work units of a run, image by image, combo by combo
UnitsInOrder(nI, nC) ==
    [n \in 1..(nI * nC) |-> <<((n - 1) \div nC) + 1, ((n - 1) % nC) + 1>>]

\* The "combos" lists of job.json.  Nothing but its digest tells one pool
\* entry from the other, so a list and the list with the two entries swapped
\* behave alike: the lists are taken up to that swap (first entry fixed).
ComboLists ==
    {cs \in SeqsUpTo(ComboPool, MaxCombos) : cs = <<>> \/ cs[1] = "slow zoom"}

\* job.json as the script may find it
Configs ==
    {[loaded |-> FALSE, image_path |-> FALSE, combos |-> <<>>,
      playlist_uuid |-> "None", playlist |-> FALSE]}
    \cup
    [loaded : {TRUE}, image_path : BOOLEAN, combos : ComboLists,
     playlist_uuid : {"P", "None"}, playlist : BOOLEAN]

\* the dream an earlier run of this script left in the playlist for a unit
EarlierDream(imgs, cs, unit) ==
    DreamItem(CreateRequest(imgs[unit[1]], cs, cs[unit[2]]))

\* no run has ended yet
NoPrior == [pc |-> "none", playlist_uuid |-> "None", failed_count |-> 0]

\* local variables of main() before its first loop (lines 133-172)
FreshRun ==
    /\ pc = "load"
    /\ combos = <<>>
    /\ playlist_uuid = "None"
    /\ existing_identifiers = {}
    /\ uploaded_image_map = <<>>
    /\ source_dream_uuid = None
    /\ image_idx = 1
    /\ combo_pos = 1
    /\ active_dreams = <<>>
    /\ job_count = 0
    /\ skipped_count = 0
    /\ failed_count = 0
    /\ scan = "none"
    /\ upload_calls = <<>>
    /\ create_calls = <<>>

InitWan ==
    /\ job_config \in Configs
    /\ \E sel \in SUBSET (1..Len(ImagePool)) :
          /\ Cardinality(sel) <= MaxImages
          /\ images = Pick(ImagePool, sel, 1)
    /\ \E pre \in SUBSET (1..(Len(images) * Len(EffectiveCombos(job_config)))),
          other \in BOOLEAN :
          /\ Cardinality(pre) + (IF other THEN 1 ELSE 0) <= MaxPre
          /\ job_config.playlist_uuid = "None" => pre = {} /\ ~other
          /\ LET cs    == EffectiveCombos(job_config)
                 units == Pick(UnitsInOrder(Len(images), Len(cs)), pre, 1)
                 items == [n \in 1..Len(units) |-> EarlierDream(images, cs, units[n])]
             IN  playlists = [p \in {"P"} |->
                     (IF other THEN <<OtherItem>> ELSE <<>>) \o items]
    /\ faults = 0
    /\ prior = NoPrior
    /\ run = "first"
    /\ FreshRun
    /\ PollIdle
    /\ PageIdle
    /\ MarkIdle
    /\ UprezIdle
    /\ QwenIdle
    /\ ResolveIdle
    /\ IdentIdle

\* ------------------------------------------- run_wan_i2v_batch.py: main()
remoteVars == <<playlists, create_calls, faults>>
inputVars  == <<job_config, images, prior>>
loopVars   == <<uploaded_image_map, source_dream_uuid, image_idx, combo_pos,
                active_dreams, job_count, skipped_count, failed_count,
                upload_calls>>

\* lines 105-131: job.json, the image directory and the combos; each
\* configuration error ends the run with sys.exit(1)
LoadConfig ==
    /\ pc = "load"
    /\ IF ~job_config.loaded \/ ~job_config.image_path \/ images = <<>>
       THEN /\ pc' = "exit"
            /\ UNCHANGED combos
       ELSE /\ pc' = "check_playlist"
            /\ combos' = EffectiveCombos(job_config)
    /\ UNCHANGED <<inputVars, remoteVars, run, playlist_uuid, existing_identifiers,
                   scan, loopVars>>
    /\ UNCHANGED notWan

\* where main() goes when a playlist uuid is, or is not, in hand (line 148)
AfterCheck(uuid) == IF uuid = "None" THEN "create_playlist" ELSE "image_loop"

\* lines 133-146: look the configured playlist up and build the index
CheckPlaylist ==
    /\ pc = "check_playlist"
    /\ IF job_config.playlist_uuid = "None"
       THEN /\ playlist_uuid' = "None"
            /\ UNCHANGED <<existing_identifiers, scan, faults>>
       ELSE \/ \* client.get_playlist raises (line 140)
               /\ faults < MaxFaults
               /\ faults' = faults + 1
               /\ playlist_uuid' = "None"
               /\ scan' = "unreachable"
               /\ UNCHANGED existing_identifiers
            \/ \* the playlist is found and every item is scanned
               /\ playlist_uuid' = job_config.playlist_uuid
               /\ existing_identifiers' =
                      get_existing_dream_identifiers(
                          playlists[job_config.playlist_uuid],
                          Len(playlists[job_config.playlist_uuid]))
               /\ scan' = "complete"
               /\ UNCHANGED faults
            \/ \* the playlist is found; the scan raises after n items
               \E n \in 0..(Len(playlists[job_config.playlist_uuid]) - 1) :
                 /\ faults < MaxFaults
                 /\ faults' = faults + 1
                 /\ playlist_uuid' = job_config.playlist_uuid
                 /\ existing_identifiers' =
                        get_existing_dream_identifiers(
                            playlists[job_config.playlist_uuid], n)
                 /\ scan' = "partial"
    /\ pc' = AfterCheck(playlist_uuid')
    /\ UNCHANGED <<inputVars, playlists, create_calls, run, combos, loopVars>>
    /\ UNCHANGED notWan

\* the uuid the store gives the playlist a run creates
NewPlaylist(r) == IF r = "first" THEN "N1" ELSE "N2"

\* lines 148-162: no usable playlist_uuid: create the playlist of job.json
CreatePlaylist ==
    /\ pc = "create_playlist"
    /\ IF ~job_config.playlist
       THEN \* "No playlist_uuid and no playlist config": sys.exit(1)
            /\ pc' = "exit"
            /\ UNCHANGED <<playlist_uuid, playlists, faults>>
       ELSE \/ \* client.create_playlist raises; nothing catches it
               /\ faults < MaxFaults
               /\ faults' = faults + 1
               /\ pc' = "crash"
               /\ UNCHANGED <<playlist_uuid, playlists>>
            \/ /\ UNCHANGED faults
               /\ playlist_uuid' = NewPlaylist(run)
               /\ playlists' = [p \in DOMAIN playlists \cup {NewPlaylist(run)} |->
                                   IF p \in DOMAIN playlists THEN playlists[p] ELSE <<>>]
               /\ pc' = "image_loop"
    /\ UNCHANGED <<inputVars, create_calls, run, combos, existing_identifiers, scan,
                   loopVars>>
    /\ UNCHANGED notWan

\* mutant of needs_upload: only the first combo is looked up
needs_upload_first_combo(image_path, cs, existing) ==
    create_job_identifier(image_path, cs[1]) \notin existing

\* mutant of needs_upload: every image is taken to lack a job
needs_upload_always(image_path, cs, existing) == TRUE

\* lines 177-182: does any combo of the image lack a job
needs_upload(image_path, cs, existing) ==
    \E k \in 1..Len(cs) : create_job_identifier(image_path, cs[k]) \notin existing

\* where the for loop over images goes after image number i
AfterImage(i) == IF i >= Len(images) THEN "summary" ELSE "image_loop"

\* mutant of AfterUploadFailure: a failed upload ends the image loop
AfterUploadFailureAbort(i) == "summary"

\* lines 233-236: the handler of a failed upload ends with "continue"
AfterUploadFailure(i) == AfterImage(i)

\* line 186: the skip count after an image whose combos all exist
SkipImage(skipped, cs) == skipped + Len(cs)

\* lines 174-236: one image: the upload guard, the upload and its URL
ImageStep ==
    /\ pc = "image_loop"
    /\ LET image_path == images[image_idx]
           cached     == IF image_path \in DOMAIN uploaded_image_map
                         THEN uploaded_image_map[image_path] ELSE None
       IN  IF ~needs_upload(image_path, combos, existing_identifiers)
           THEN \* "Skipping image (all combos exist)"
                /\ skipped_count' = SkipImage(skipped_count, combos)
                /\ image_idx' = image_idx + 1
                /\ pc' = AfterImage(image_idx)
                /\ UNCHANGED <<uploaded_image_map, source_dream_uuid, failed_count,
                               upload_calls, combo_pos, faults>>
           ELSE IF cached # None
           THEN /\ source_dream_uuid' = cached
                /\ combo_pos' = 1
                /\ pc' = "combo_loop"
                /\ UNCHANGED <<uploaded_image_map, skipped_count, failed_count,
                               upload_calls, image_idx, faults>>
           ELSE \/ \* upload_file raises, or its answer has no uuid
                   /\ faults < MaxFaults
                   /\ faults' = faults + 1
                   /\ failed_count' = failed_count + Len(combos)
                   /\ upload_calls' = Append(upload_calls, <<image_idx, "raise">>)
                   /\ image_idx' = image_idx + 1
                   /\ pc' = AfterUploadFailure(image_idx)
                   /\ UNCHANGED <<uploaded_image_map, source_dream_uuid,
                                  skipped_count, combo_pos>>
                \/ \* uploaded, and get_dream shows a presigned URL
                   /\ source_dream_uuid' = <<"http", image_idx>>
                   /\ uploaded_image_map' =
                          [q \in DOMAIN uploaded_image_map \cup {image_path} |->
                              IF q = image_path THEN <<"http", image_idx>>
                              ELSE uploaded_image_map[q]]
                   /\ upload_calls' = Append(upload_calls, <<image_idx, "ok">>)
                   /\ combo_pos' = 1
                   /\ pc' = "combo_loop"
                   /\ UNCHANGED <<skipped_count, failed_count, image_idx, faults>>
                \/ \* uploaded, but no URL shows: the raw uuid is the reference
                   /\ faults < MaxFaults
                   /\ faults' = faults + 1
                   /\ source_dream_uuid' = <<"uuid", image_idx>>
                   /\ uploaded_image_map' =
                          [q \in DOMAIN uploaded_image_map \cup {image_path} |->
                              IF q = image_path THEN <<"uuid", image_idx>>
                              ELSE uploaded_image_map[q]]
                   /\ upload_calls' = Append(upload_calls, <<image_idx, "ok">>)
                   /\ combo_pos' = 1
                   /\ pc' = "combo_loop"
                   /\ UNCHANGED <<skipped_count, failed_count, image_idx>>
    /\ UNCHANGED <<inputVars, playlists, create_calls, run, combos, playlist_uuid,
                   existing_identifiers, scan, active_dreams, job_count>>
    /\ UNCHANGED notWan

\* one create_dream_from_prompt call: the work unit it is made for, the
\* request, whether the store created the job, and the uuid it then gave
CreateCall(request, uuid, i, k, ok) ==
    [uuid |-> uuid, image |-> i, combo |-> k, ok |-> ok,
     name |-> request.name, description |-> request.description]

\* where the for loop over combos goes after combo number k of image i
AfterCombo(i, k) == IF k < Len(combos) THEN "combo_loop" ELSE AfterImage(i)

\* mutant of AfterCreate: a failed attachment is counted nowhere
AfterCreateUncounted(active, failed, uuid, attached) ==
    IF attached THEN <<Append(active, uuid), failed>>
    ELSE <<active, failed>>

\* lines 276-286 once create_dream_from_prompt has returned: the job is
\* attached to the playlist and then appended to active_dreams; an exception
\* of the attachment reaches the handler of line 284.
\* Gives <<active_dreams, failed_count>>.
AfterCreate(active, failed, uuid, attached) ==
    IF attached THEN <<Append(active, uuid), failed>>
    ELSE <<active, failed + 1>>

\* lines 238-286: one combo of the current image
ComboStep ==
    /\ pc = "combo_loop"
    /\ LET image_path == images[image_idx]
           combo      == combos[combo_pos]
           identifier == create_job_identifier(image_path, combo)
           uuid       == <<run, Len(create_calls) + 1>>
           request    == CreateRequest(image_path, combos, combo)
       IN  /\ job_count' = job_count + 1
           /\ IF identifier \in existing_identifiers
              THEN \* "Skipping existing"
                   /\ skipped_count' = skipped_count + 1
                   /\ UNCHANGED <<remoteVars, active_dreams, failed_count>>
              ELSE \/ \* create_dream_from_prompt raises
                      /\ faults < MaxFaults
                      /\ faults' = faults + 1
                      /\ failed_count' = failed_count + 1
                      /\ create_calls' = Append(create_calls,
                             CreateCall(request, uuid, image_idx, combo_pos, FALSE))
                      /\ UNCHANGED <<playlists, active_dreams, skipped_count>>
                   \/ \* the job is created and attached to the playlist
                      /\ create_calls' = Append(create_calls,
                             CreateCall(request, uuid, image_idx, combo_pos, TRUE))
                      /\ playlists' = [playlists EXCEPT ![playlist_uuid] =
                                          Append(@, DreamItem(request))]
                      /\ active_dreams' =
                             AfterCreate(active_dreams, failed_count, uuid, TRUE)[1]
                      /\ failed_count' =
                             AfterCreate(active_dreams, failed_count, uuid, TRUE)[2]
                      /\ UNCHANGED <<skipped_count, faults>>
                   \/ \* the job is created; add_item_to_playlist raises
                      /\ faults < MaxFaults
                      /\ faults' = faults + 1
                      /\ create_calls' = Append(create_calls,
                             CreateCall(request, uuid, image_idx, combo_pos, TRUE))
                      /\ active_dreams' =
                             AfterCreate(active_dreams, failed_count, uuid, FALSE)[1]
                      /\ failed_count' =
                             AfterCreate(active_dreams, failed_count, uuid, FALSE)[2]
                      /\ UNCHANGED <<playlists, skipped_count>>
    /\ pc' = AfterCombo(image_idx, combo_pos)
    /\ combo_pos' = IF combo_pos < Len(combos) THEN combo_pos + 1 ELSE 1
    /\ image_idx' = IF combo_pos < Len(combos) THEN image_idx ELSE image_idx + 1
    /\ UNCHANGED <<inputVars, run, combos, playlist_uuid, existing_identifiers, scan,
                   uploaded_image_map, source_dream_uuid, upload_calls>>
    /\ UNCHANGED notWan

\* lines 288-299: the submission summary; without active jobs main() returns,
\* otherwise the polling loop starts
Summary ==
    /\ pc = "summary"
    /\ pc' = IF active_dreams = <<>> THEN "done" ELSE "polling"
    /\ UNCHANGED <<inputVars, remoteVars, run, combos, playlist_uuid,
                   existing_identifiers, scan, loopVars>>
    /\ UNCHANGED notWan

\* The script is started again with the same job.json and image directory.
\* Without a playlist_uuid in job.json the second run starts from a fresh
\* playlist and repeats the first, so only configurations that name a
\* playlist are run twice.
Rerun ==
    /\ run = "first"
    /\ job_config.playlist_uuid # "None"
    /\ pc \in {"done", "polling", "exit", "crash"}
    /\ run' = "second"
    /\ pc' = "load"
    /\ combos' = <<>>
    /\ playlist_uuid' = "None"
    /\ existing_identifiers' = {}
    /\ uploaded_image_map' = <<>>
    /\ source_dream_uuid' = None
    /\ image_idx' = 1
    /\ combo_pos' = 1
    /\ active_dreams' = <<>>
    /\ job_count' = 0
    /\ skipped_count' = 0
    /\ failed_count' = 0
    /\ scan' = "none"
    /\ upload_calls' = <<>>
    /\ create_calls' = <<>>
    /\ prior' = [pc |-> pc, playlist_uuid |-> playlist_uuid,
                 failed_count |-> failed_count]
    /\ UNCHANGED <<job_config, images, playlists, faults>>
    /\ UNCHANGED notWan

NextWan ==
    \/ LoadConfig
    \/ CheckPlaylist
    \/ CreatePlaylist
    \/ ImageStep
    \/ ComboStep
    \/ Summary
    \/ Rerun

SpecWan == InitWan /\ [][NextWan]_vars

\* ------------------------------------------------ the polling loops
\* run_wan_i2v_batch.py 298-333, run_uprez_batch.py 223-251,
\* run_qwen_image_batch.py 126-184.  A status query takes no time; the
\* sleep between rounds takes poll_interval.
poll_interval == 10
max_wait_wan == 7200
max_wait_uprez == 7200
max_wait_qwen == 3600

max_wait(sc) ==
    CASE sc = "wan"   -> max_wait_wan
      [] sc = "uprez" -> max_wait_uprez
      [] sc = "qwen"  -> max_wait_qwen

\* what one client.get_dream(uuid) of the loop gives: the status "processed"
\* or "failed", any other or missing status, or an exception
QueryOutcomes == {"processed", "failed", "other", "raise"}

\* the state of main() of run_wan_i2v_batch.py while another script runs
WanIdle ==
    /\ job_config = [loaded |-> FALSE, image_path |-> FALSE, combos |-> <<>>,
                     playlist_uuid |-> "None", playlist |-> FALSE]
    /\ images = <<>>
    /\ playlists = <<>>
    /\ faults = 0
    /\ prior = NoPrior
    /\ run = "none"
    /\ pc = "idle"
    /\ combos = <<>>
    /\ playlist_uuid = "None"
    /\ existing_identifiers = {}
    /\ uploaded_image_map = <<>>
    /\ source_dream_uuid = None
    /\ image_idx = 1
    /\ combo_pos = 1
    /\ active_dreams = <<>>
    /\ job_count = 0
    /\ skipped_count = 0
    /\ failed_count = 0
    /\ scan = "none"
    /\ upload_calls = <<>>
    /\ create_calls = <<>>

\* The submission loop has ended with m jobs started.  The wan-i2v and
\* qwen-image scripts return before the loop when no job was started
\* (lines 295 and 122); the uprez script does not.
InitPoll ==
    /\ WanIdle
    /\ PageIdle
    /\ MarkIdle
    /\ UprezIdle
    /\ QwenIdle
    /\ ResolveIdle
    /\ IdentIdle
    /\ script \in {"wan", "uprez", "qwen"}
    /\ \E m \in 0..MaxJobs :
         /\ (m = 0) => (script = "uprez")
         /\ active_jobs = [n \in 1..m |-> n]
    /\ poll_pc = "start"
    /\ pending = {}
    /\ pending_list = <<>>
    /\ completed = {}
    /\ remaining = <<>>
    /\ todo = {}
    /\ qpos = 1
    /\ elapsed = 0
    /\ rounds = 0
    /\ observed = <<>>
    /\ queries = <<>>
    /\ seen_terminal = {}
    /\ report = "none"
    /\ seen_failed = {}
    /\ fetched = <<>>
    /\ downloaded_count = 0

ActiveIds == {active_jobs[n] : n \in 1..Len(active_jobs)}

\* the uuids the loop still polls
PendingIds == IF script = "qwen"
              THEN {pending_list[n] : n \in 1..Len(pending_list)}
              ELSE pending

\* qwen 145-148: the fields of a processed dream that may hold the image;
\* "" is a field that is missing or empty
ProcessedDreams == [thumbnail : {"", "thumbnail_url"}, video : {"", "video_url"}]

NoArtifact == [thumbnail |-> "", video |-> ""]

\* mutant of image_url: the video field is tried first
image_url_video_first(dream) ==
    IF dream.video # "" THEN dream.video ELSE dream.thumbnail

\* image_url = dream.get("thumbnail"); if not image_url: dream.get("video")
image_url(dream) == IF dream.thumbnail # "" THEN dream.thumbnail ELSE dream.video

\* no artifact fetch was made for the uuid in this round
NoFetch == [dream |-> NoArtifact, url |-> "", attempted |-> FALSE,
            downloaded |-> FALSE, warning |-> FALSE]

\* qwen 145-166: the fetch for a processed dream; ok is what download_image
\* returns when it is called
Fetch(dream, ok) ==
    [dream |-> dream, url |-> image_url(dream),
     attempted  |-> image_url(dream) # "",
     downloaded |-> image_url(dream) # "" /\ ok,
     warning    |-> image_url(dream) = ""]

\* history: the uuids some query has shown as failed
SeenFailed(seen, uuid, outcome) == IF outcome = "failed" THEN seen \cup {uuid} ELSE seen

\* pending = set(active_dreams) / list(active_jobs); start_time = time.time()
PollStart ==
    /\ poll_pc = "start"
    /\ poll_pc' = "while"
    /\ IF script = "qwen"
       THEN pending_list' = active_jobs /\ UNCHANGED pending
       ELSE pending' = ActiveIds /\ UNCHANGED pending_list
    /\ elapsed' = 0
    /\ observed' = [id \in ActiveIds |-> "none"]
    /\ queries' = [id \in ActiveIds |-> 0]
    /\ fetched' = [id \in ActiveIds |-> NoFetch]
    /\ UNCHANGED <<script, active_jobs, completed, remaining, todo, qpos, rounds,
                   seen_terminal, report, seen_failed, downloaded_count>>
    /\ UNCHANGED notPoll

\* mutant of LoopContinues: the loop tests the pending set alone
LoopContinuesNoDeadline(sc, waiting, el) == waiting # {}

\* while pending and (time.time() - start_time) < max_wait
LoopContinues(sc, waiting, el) == waiting # {} /\ el < max_wait(sc)

\* the while condition holds: completed = set() / remaining = []
RoundStart ==
    /\ poll_pc = "while"
    /\ LoopContinues(script, PendingIds, elapsed)
    /\ poll_pc' = "for"
    /\ completed' = {}
    /\ remaining' = <<>>
    /\ todo' = pending
    /\ qpos' = 1
    /\ rounds' = rounds + 1
    /\ observed' = [id \in ActiveIds |-> "none"]
    /\ queries' = [id \in ActiveIds |-> 0]
    /\ fetched' = [id \in ActiveIds |-> NoFetch]
    /\ UNCHANGED <<script, active_jobs, pending, pending_list, elapsed,
                   seen_terminal, report, seen_failed, downloaded_count>>
    /\ UNCHANGED notPoll

Terminal == {"processed", "failed"}

\* history: the uuids some query has shown in a terminal status
Seen(seen, uuid, outcome) == IF outcome \in Terminal THEN seen \cup {uuid} ELSE seen

\* wan 313-321, uprez 235-242: a terminal status puts the uuid in completed
Completed(done, uuid, outcome) ==
    IF outcome \in {"processed", "failed"} THEN done \cup {uuid} ELSE done

\* mutant of Remaining: the exception handler does not keep the uuid
RemainingDropsRaise(rest, uuid, outcome) ==
    IF outcome = "other" THEN Append(rest, uuid) ELSE rest

\* qwen 142-175: any other status, and an exception, keep the uuid
Remaining(rest, uuid, outcome) ==
    IF outcome \in {"processed", "failed"} THEN rest ELSE Append(rest, uuid)

\* wan 308-321, uprez 231-242: the body of "for uuid in pending", once
QuerySet ==
    /\ poll_pc = "for"
    /\ script \in {"wan", "uprez"}
    /\ \E uuid \in todo, outcome \in QueryOutcomes :
         /\ todo' = todo \ {uuid}
         /\ completed' = Completed(completed, uuid, outcome)
         /\ observed' = [observed EXCEPT ![uuid] = outcome]
         /\ queries' = [queries EXCEPT ![uuid] = @ + 1]
         /\ seen_terminal' = Seen(seen_terminal, uuid, outcome)
         /\ seen_failed' = SeenFailed(seen_failed, uuid, outcome)
    /\ UNCHANGED <<script, poll_pc, active_jobs, pending, pending_list, remaining,
                   qpos, elapsed, rounds, report, fetched, downloaded_count>>
    /\ UNCHANGED notPoll

\* qwen 137-175: the body of "for uuid, idx in pending", once
QueryList ==
    /\ poll_pc = "for"
    /\ script = "qwen"
    /\ qpos <= Len(pending_list)
    /\ \E outcome \in QueryOutcomes, dream \in ProcessedDreams, ok \in BOOLEAN :
         LET uuid == pending_list[qpos]
             got  == Fetch(dream, ok)
         IN  /\ outcome # "processed" => (dream = NoArtifact /\ ok)
             /\ image_url(dream) = "" => ok
             /\ remaining' = Remaining(remaining, uuid, outcome)
             /\ observed' = [observed EXCEPT ![uuid] = outcome]
             /\ queries' = [queries EXCEPT ![uuid] = @ + 1]
             /\ seen_terminal' = Seen(seen_terminal, uuid, outcome)
             /\ seen_failed' = SeenFailed(seen_failed, uuid, outcome)
             /\ fetched' = IF outcome = "processed"
                           THEN [fetched EXCEPT ![uuid] = got] ELSE fetched
             /\ downloaded_count' = IF outcome = "processed" /\ got.downloaded
                                    THEN downloaded_count + 1 ELSE downloaded_count
    /\ qpos' = qpos + 1
    /\ UNCHANGED <<script, poll_pc, active_jobs, pending, pending_list, completed,
                   todo, elapsed, rounds, report>>
    /\ UNCHANGED notPoll

\* mutant of ForDone: a failed job ends the round
ForDoneAtFailure ==
    \/ (IF script = "qwen" THEN qpos > Len(pending_list) ELSE todo = {})
    \/ \E id \in ActiveIds : observed[id] = "failed"

\* the for loop of this round has visited every uuid
ForDone == IF script = "qwen" THEN qpos > Len(pending_list) ELSE todo = {}

\* mutant of Sleep: the loop sleeps after every round
SleepAlways(el, waiting) == el + poll_interval

\* time.sleep(poll_interval) when uuids are left: the time after the round
Sleep(el, waiting) == IF waiting # {} THEN el + poll_interval ELSE el

\* wan 323-326, uprez 244-246, qwen 177-179: the end of a round
RoundEnd ==
    /\ poll_pc = "for"
    /\ ForDone
    /\ poll_pc' = "while"
    /\ IF script = "qwen"
       THEN /\ pending_list' = remaining
            /\ elapsed' = Sleep(elapsed, {remaining[n] : n \in 1..Len(remaining)})
            /\ UNCHANGED pending
       ELSE /\ pending' = pending \ completed
            /\ elapsed' = Sleep(elapsed, pending \ completed)
            /\ UNCHANGED pending_list
    /\ UNCHANGED <<script, active_jobs, completed, remaining, todo, qpos, rounds,
                   observed, queries, seen_terminal, report, seen_failed, fetched,
                   downloaded_count>>
    /\ UNCHANGED notPoll

\* wan 328-331, uprez 248-251, qwen 181-182: what is printed after the loop
Report(sc, waiting) ==
    IF waiting # {} THEN "timeout"
    ELSE IF sc = "qwen" THEN "completed" ELSE "all_finished"

\* the counts the lines printed after the loop carry, by group: wan 329 and
\* qwen 182 print the number still pending when the loop timed out, qwen 184
\* the number of images downloaded; uprez 248-251 prints no number
FinalCounts(sc, waiting, downloaded) ==
    [g \in (IF sc \in {"wan", "qwen"} /\ waiting # {} THEN {"pending"} ELSE {})
           \cup (IF sc = "qwen" THEN {"downloaded"} ELSE {})
        |-> IF g = "pending" THEN Cardinality(waiting) ELSE downloaded]

\* the while condition fails: the loop is left and the outcome printed
LoopExit ==
    /\ poll_pc = "while"
    /\ ~LoopContinues(script, PendingIds, elapsed)
    /\ poll_pc' = "done"
    /\ report' = Report(script, PendingIds)
    /\ UNCHANGED <<script, active_jobs, pending, pending_list, completed, remaining,
                   todo, qpos, elapsed, rounds, observed, queries, seen_terminal,
                   seen_failed, fetched, downloaded_count>>
    /\ UNCHANGED notPoll

NextPoll ==
    \/ PollStart
    \/ RoundStart
    \/ QuerySet
    \/ QueryList
    \/ RoundEnd
    \/ LoopExit

SpecPoll == InitPoll /\ [][NextPoll]_vars

\* ------------------------- run_uprez_batch.py: get_all_playlist_dreams
\* client.get_playlist_items(playlist_uuid, take, skip): the item numbers of
\* the page, of a playlist that does not change during the scan
PageOf(items, sk, tk) ==
    [n \in 1..(IF Len(items) - sk < 0 THEN 0
               ELSE IF Len(items) - sk < tk THEN Len(items) - sk ELSE tk) |-> sk + n]

\* lines 45-51: the dreams among the items of a page, in order
RECURSIVE DreamsOf(_, _)
DreamsOf(items, page) ==
    IF page = <<>> THEN <<>>
    ELSE (IF items[Head(page)] = "dream" THEN <<Head(page)>> ELSE <<>>)
         \o DreamsOf(items, Tail(page))

\* line 54: the scan stops after this page
LastPage(collected, total_count, page_len, tk) ==
    collected >= total_count \/ page_len < tk

InitPage ==
    /\ WanIdle
    /\ PollIdle
    /\ MarkIdle
    /\ UprezIdle
    /\ QwenIdle
    /\ ResolveIdle
    /\ IdentIdle
    /\ source_items \in SeqsUpTo({"dream", "other"}, MaxItems)
    /\ page_pc = "fetch"
    /\ all_dreams = <<>>
    /\ skip = 0
    /\ page_calls = <<>>
    /\ page_seen = <<>>
    /\ page_error = FALSE

\* lines 37-60: one turn of the while loop
FetchPage ==
    /\ page_pc = "fetch"
    /\ page_calls' = Append(page_calls, skip)
    /\ \/ \* get_playlist_items raises (line 58)
          /\ page_error' = TRUE
          /\ page_pc' = "done"
          /\ UNCHANGED <<all_dreams, skip, page_seen>>
       \/ LET items == PageOf(source_items, skip, take)
              found == all_dreams \o DreamsOf(source_items, items)
          IN  IF items = <<>>
              THEN /\ page_pc' = "done"
                   /\ UNCHANGED <<all_dreams, skip, page_seen, page_error>>
              ELSE /\ all_dreams' = found
                   /\ page_seen' = page_seen \o items
                   /\ IF LastPage(Len(found), Len(source_items), Len(items), take)
                      THEN page_pc' = "done" /\ UNCHANGED skip
                      ELSE page_pc' = "fetch" /\ skip' = skip + take
                   /\ UNCHANGED page_error
    /\ UNCHANGED source_items
    /\ UNCHANGED notPage

NextPage == FetchPage

SpecPage == InitPage /\ [][NextPage]_vars

\* ------------------------ run_uprez_batch.py: update_dream_description
\* Descriptions and markers are sequences of characters here.
DescChars == {"u", "U", "x", " "}
MarkerChars == {"u", "U", " "}

\* str.lower(), character by character
LowerChar(c) == IF c = "U" THEN "u" ELSE c
Lower(text) == [n \in 1..Len(text) |-> LowerChar(text[n])]

\* the positions at which m occurs in text, case-insensitively
Occurrences(text, m) ==
    {n \in 1..(Len(text) - Len(m) + 1) :
        SubSeq(Lower(text), n, n + Len(m) - 1) = Lower(m)}

\* mutant of HasMark: the marker is looked up without lower()
HasMarkCaseSensitive(text, m) ==
    m = <<>> \/ \E n \in 1..(Len(text) - Len(m) + 1) :
                   SubSeq(text, n, n + Len(m) - 1) = m

\* marker.lower() in current_description.lower()
HasMark(text, m) == m = <<>> \/ Occurrences(text, m) # {}

\* lines 85-88: the description with the marker appended
new_description(current_description, m) ==
    IF current_description # <<>> THEN current_description \o <<" ">> \o m ELSE m

\* what client.get_dream gives: the dream, a falsy answer, or an exception
GetOutcomes == {"dream", "empty", "raise"}

\* what client.update_dream does: it stores the description, raises before
\* storing it, or raises after the store has taken it
UpdateOutcomes == {"ok", "raise", "raise_after_store"}

\* lines 74-98, for the outcome of its remote calls:
\* [updated: update_dream was called, stored: the description in the store,
\*  ret: the value returned]
update_dream_description(current, m, got, upd) ==
    IF got = "raise" THEN [updated |-> FALSE, stored |-> current, ret |-> FALSE]
    ELSE IF got = "empty" THEN [updated |-> FALSE, stored |-> current, ret |-> FALSE]
    ELSE IF HasMark(current, m) THEN [updated |-> FALSE, stored |-> current, ret |-> TRUE]
    ELSE [updated |-> TRUE,
          stored  |-> IF upd = "raise" THEN current ELSE new_description(current, m),
          ret     |-> upd = "ok"]

InitMark ==
    /\ WanIdle
    /\ PollIdle
    /\ PageIdle
    /\ UprezIdle
    /\ QwenIdle
    /\ ResolveIdle
    /\ IdentIdle
    /\ description \in SeqsUpTo(DescChars, MaxDescLen)
    /\ marker \in SeqsUpTo(MarkerChars, MaxMarkerLen) \ {<<>>}
    /\ initial_description = description
    /\ mark_calls = <<>>

\* one call update_dream_description(client, dream_uuid, marker)
MarkCall ==
    /\ Len(mark_calls) < MaxMarkCalls
    /\ \E got \in GetOutcomes, upd \in UpdateOutcomes :
         LET r == update_dream_description(description, marker, got, upd)
         IN  /\ description' = r.stored
             /\ mark_calls' = Append(mark_calls,
                    [got |-> got, updated |-> r.updated, ret |-> r.ret,
                     before |-> description, after |-> r.stored])
    /\ UNCHANGED <<marker, initial_description>>
    /\ UNCHANGED notMark

NextMark == MarkCall

SpecMark == InitMark /\ [][NextMark]_vars

\* ------------------------------------------ run_uprez_batch.py: main()
\* most items of the source playlist of a whole uprez run
MaxSource == 3

\* tracking_config.get("marker", "uprez"), as characters
uprez_marker == <<"u">>

\* uprez-config.json as the script may find it
UprezConfigs ==
    {[loaded |-> FALSE, playlist_uuid |-> FALSE, existing_playlist_uuid |-> FALSE]}
    \cup [loaded : {TRUE}, playlist_uuid : BOOLEAN, existing_playlist_uuid : BOOLEAN]

\* lines 64-72: a dream that cannot be read counts as not yet uprezed
is_dream_already_uprezed(current, m, got) ==
    IF got = "dream" THEN HasMark(current, m) ELSE FALSE

\* local variables of main() of run_uprez_batch.py when it starts
UprezFresh ==
    /\ uz_pc = "load"
    /\ dreams_to_process = <<>>
    /\ uz_pos = 1
    /\ uz_active_jobs = <<>>
    /\ uz_checks = <<>>
    /\ uz_creates = <<>>
    /\ uz_remote = FALSE

InitUprez ==
    /\ WanIdle
    /\ PollIdle
    /\ MarkIdle
    /\ QwenIdle
    /\ ResolveIdle
    /\ IdentIdle
    /\ uz_config \in UprezConfigs
    /\ uz_run = "first"
    /\ uz_faults = 0
    /\ uz_prior = {}
    /\ uz_prior_failed = {}
    /\ UprezFresh
    /\ source_items \in SeqsUpTo({"dream", "other"}, MaxSource)
    /\ descriptions \in
          {d \in [1..Len(source_items) -> {<<>>, <<"U">>}] :
              \A n \in 1..Len(source_items) : source_items[n] = "other" => d[n] = <<>>}
    /\ page_pc = "idle"
    /\ all_dreams = <<>>
    /\ skip = 0
    /\ page_calls = <<>>
    /\ page_seen = <<>>
    /\ page_error = FALSE

uzInputs == <<uz_config, uz_run, uz_prior, uz_prior_failed>>
uzLoop   == <<dreams_to_process, uz_pos, uz_active_jobs, uz_checks, uz_creates>>

\* lines 113-124: a config that cannot be loaded, or has no playlist_uuid,
\* ends the run with sys.exit(1)
UzLoad ==
    /\ uz_pc = "load"
    /\ uz_pc' = IF ~uz_config.loaded \/ ~uz_config.playlist_uuid
                THEN "exit" ELSE "output"
    /\ UNCHANGED <<uzInputs, uzLoop, uz_faults, descriptions, uz_remote>>
    /\ UNCHANGED pageVars
    /\ UNCHANGED notUprez

\* what main() leaves of the scan's variables while it does not scan
pageRest == <<source_items, all_dreams, skip, page_calls, page_seen, page_error>>

\* lines 131-157: the output playlist is looked up (a failure is tolerated)
\* or created (a failure is not caught), then the source scan starts
UzOutputPlaylist ==
    /\ uz_pc = "output"
    /\ \E found \in BOOLEAN, created \in BOOLEAN :
         LET lookup == uz_config.existing_playlist_uuid
             create == ~lookup \/ ~found
             failed == (IF lookup /\ ~found THEN 1 ELSE 0)
                       + (IF create /\ ~created THEN 1 ELSE 0)
         IN  /\ ~lookup => found
             /\ ~create => created
             /\ uz_faults + failed <= MaxFaults
             /\ uz_faults' = uz_faults + failed
             /\ IF create /\ ~created
                THEN uz_pc' = "crash" /\ UNCHANGED page_pc
                ELSE uz_pc' = "fetch" /\ page_pc' = "fetch"
    /\ uz_remote' = TRUE
    /\ UNCHANGED <<uzInputs, uzLoop, descriptions>>
    /\ UNCHANGED pageRest
    /\ UNCHANGED notUprez

\* lines 163-166: get_all_playlist_dreams has returned
UzScanStart ==
    /\ uz_pc = "fetch"
    /\ page_pc = "done"
    /\ uz_checks' = [n \in 1..Len(source_items) |-> "none"]
    /\ uz_pc' = IF all_dreams = <<>> THEN "done" ELSE "check"
    /\ uz_pos' = 1
    /\ UNCHANGED <<uzInputs, uz_faults, descriptions, dreams_to_process,
                   uz_active_jobs, uz_creates, uz_remote>>
    /\ UNCHANGED pageVars
    /\ UNCHANGED notUprez

\* what the marker check of one dream saw
CheckSaw(got, uprezed) ==
    IF got = "dream" THEN (IF uprezed THEN "marked" ELSE "unmarked") ELSE got

\* lines 166-176: the marker check of one dream of all_dreams
UzCheck ==
    /\ uz_pc = "check"
    /\ \E got \in GetOutcomes :
         LET n == all_dreams[uz_pos]
             uprezed == is_dream_already_uprezed(descriptions[n], uprez_marker, got)
             todo_ == IF uprezed THEN dreams_to_process
                      ELSE Append(dreams_to_process, n)
         IN  /\ got # "dream" => uz_faults < MaxFaults
             /\ uz_faults' = IF got # "dream" THEN uz_faults + 1 ELSE uz_faults
             /\ dreams_to_process' = todo_
             /\ uz_checks' = [uz_checks EXCEPT ![n] = CheckSaw(got, uprezed)]
             /\ IF uz_pos < Len(all_dreams)
                THEN uz_pc' = "check" /\ uz_pos' = uz_pos + 1
                ELSE /\ uz_pc' = IF todo_ = <<>> THEN "done" ELSE "create"
                     /\ uz_pos' = 1
    /\ UNCHANGED <<uzInputs, descriptions, uz_active_jobs, uz_creates, uz_remote>>
    /\ UNCHANGED pageVars
    /\ UNCHANGED notUprez

\* lines 180-221: one dream of dreams_to_process.  The job is created; the
\* attachment to the output playlist has its own handler (207-214); the
\* source dream is marked and the job appended to active_jobs.  An exception
\* of create_dream_from_prompt reaches the handler of line 220.
UzCreate ==
    /\ uz_pc = "create"
    /\ \E created \in BOOLEAN, attached \in BOOLEAN,
          got \in GetOutcomes, upd \in UpdateOutcomes :
         LET n == dreams_to_process[uz_pos]
             r == update_dream_description(descriptions[n], uprez_marker, got, upd)
             failed == IF ~created THEN 1
                       ELSE (IF ~attached THEN 1 ELSE 0)
                            + (IF got # "dream" THEN 1 ELSE 0)
                            + (IF r.updated /\ upd # "ok" THEN 1 ELSE 0)
         IN  /\ ~created => (attached /\ got = "dream" /\ upd = "ok")
             /\ ~r.updated => upd = "ok"
             /\ uz_faults + failed <= MaxFaults
             /\ uz_faults' = uz_faults + failed
             /\ uz_creates' = Append(uz_creates,
                    [dream |-> n, ok |-> created, attached |-> created /\ attached,
                     marked |-> created /\ r.ret,
                     updated |-> created /\ r.updated])
             /\ descriptions' = IF created
                                THEN [descriptions EXCEPT ![n] = r.stored]
                                ELSE descriptions
             /\ uz_active_jobs' = IF created
                                  THEN Append(uz_active_jobs,
                                              <<uz_run, Len(uz_creates) + 1>>)
                                  ELSE uz_active_jobs
    /\ IF uz_pos < Len(dreams_to_process)
       THEN uz_pc' = "create" /\ uz_pos' = uz_pos + 1
       ELSE uz_pc' = "poll" /\ uz_pos' = 1
    /\ UNCHANGED <<uzInputs, dreams_to_process, uz_checks, uz_remote>>
    /\ UNCHANGED pageVars
    /\ UNCHANGED notUprez

\* the source dreams this run created a job for
UzCreated == {uz_creates[k].dream : k \in {j \in 1..Len(uz_creates) : uz_creates[j].ok}}

\* the source dreams whose create_dream_from_prompt call raised in this run
UzCreateRaised ==
    {uz_creates[k].dream : k \in {j \in 1..Len(uz_creates) : ~uz_creates[j].ok}}

\* The script is started again with the same uprez-config.json, against the
\* source playlist as the first run left it.
UzRerun ==
    /\ uz_run = "first"
    /\ uz_pc \in {"done", "poll"}
    /\ uz_run' = "second"
    /\ uz_prior' = UzCreated
    /\ uz_prior_failed' = UzCreateRaised
    /\ uz_pc' = "load"
    /\ dreams_to_process' = <<>>
    /\ uz_pos' = 1
    /\ uz_active_jobs' = <<>>
    /\ uz_checks' = <<>>
    /\ uz_creates' = <<>>
    /\ uz_remote' = FALSE
    /\ page_pc' = "idle"
    /\ all_dreams' = <<>>
    /\ skip' = 0
    /\ page_calls' = <<>>
    /\ page_seen' = <<>>
    /\ page_error' = FALSE
    /\ UNCHANGED <<uz_config, uz_faults, descriptions, source_items>>
    /\ UNCHANGED notUprez

\* FetchPage is get_all_playlist_dreams, called at line 157
NextUprez ==
    \/ UzLoad
    \/ UzOutputPlaylist
    \/ FetchPage
    \/ UzScanStart
    \/ UzCheck
    \/ UzCreate
    \/ UzRerun

SpecUprez == InitUprez /\ [][NextUprez]_vars

\* --------------- run_wan_i2v_batch.py 201-232: the URL of an uploaded image
max_retries == 10

\* what a field of the fetched dream may hold: nothing, a string that is no
\* URL (a storage key), a presigned URL
FieldValues == {"", "key", "http"}

FetchedDreams ==
    [original_video : FieldValues, video : FieldValues, thumbnail : FieldValues]

\* mutant of presigned: the fields are examined in the reverse order
presigned_thumbnail_first(dream) ==
    IF dream.thumbnail = "http" THEN "http:thumbnail"
    ELSE IF dream.video = "http" THEN "http:video"
    ELSE IF dream.original_video = "http" THEN "http:original_video"
    ELSE ""

\* lines 208-213: the first of the fields that holds a string starting with
\* "http", tagged with the field; "" when none does
presigned(dream) ==
    IF dream.original_video = "http" THEN "http:original_video"
    ELSE IF dream.video = "http" THEN "http:video"
    ELSE IF dream.thumbnail = "http" THEN "http:thumbnail"
    ELSE ""

\* mutant of SleepsAfter: every attempt without a URL is followed by a sleep
SleepsAlways(a) == TRUE

\* lines 218 and 223: if attempt < max_retries - 1: time.sleep(0.5)
SleepsAfter(a) == a < max_retries - 1

\* upload_file has returned the uuid of the uploaded dream (line 198)
InitResolve ==
    /\ WanIdle
    /\ PollIdle
    /\ PageIdle
    /\ MarkIdle
    /\ UprezIdle
    /\ QwenIdle
    /\ IdentIdle
    /\ rs_pc = "loop"
    /\ attempt = 0
    /\ rs_image_url = ""
    /\ rs_source = ""
    /\ rs_warning = FALSE
    /\ rs_sleeps = 0
    /\ rs_slept = FALSE
    /\ rs_log = <<>>
    /\ rs_fetched = NoDream

\* lines 204-224: one attempt
RsAttempt ==
    /\ rs_pc = "loop"
    /\ attempt < max_retries
    /\ \E raised \in BOOLEAN, dream \in FetchedDreams :
         LET url == IF raised THEN "" ELSE presigned(dream)
         IN  /\ raised => dream = NoDream
             /\ rs_fetched' = dream
             /\ rs_log' = Append(rs_log, IF raised THEN "raise"
                                         ELSE IF url = "" THEN "nourl" ELSE "url")
             /\ IF url # ""
                THEN /\ rs_image_url' = url
                     /\ rs_pc' = "after"
                     /\ rs_slept' = FALSE
                     /\ UNCHANGED <<attempt, rs_sleeps>>
                ELSE /\ rs_sleeps' = IF SleepsAfter(attempt) THEN rs_sleeps + 1
                                     ELSE rs_sleeps
                     /\ rs_slept' = SleepsAfter(attempt)
                     /\ attempt' = attempt + 1
                     /\ rs_pc' = IF attempt + 1 < max_retries THEN "loop" ELSE "after"
                     /\ UNCHANGED rs_image_url
    /\ UNCHANGED <<rs_source, rs_warning>>
    /\ UNCHANGED notResolve

\* lines 226-232: the reference the jobs of this image are created with
RsFinish ==
    /\ rs_pc = "after"
    /\ rs_source' = IF rs_image_url # "" THEN rs_image_url ELSE "dream_uuid"
    /\ rs_warning' = (rs_image_url = "")
    /\ rs_pc' = "combo_loop"
    /\ UNCHANGED <<attempt, rs_image_url, rs_sleeps, rs_slept, rs_log, rs_fetched>>
    /\ UNCHANGED notResolve

NextResolve ==
    \/ RsAttempt
    \/ RsFinish

SpecResolve == InitResolve /\ [][NextResolve]_vars

\* ------------------------ run_qwen_image_batch.py: main() up to the loop
\* qwen-image-config.json as the script may find it
QwenConfigs ==
    {[loaded |-> FALSE, prompt |-> FALSE, num_generations |-> 1]}
    \cup [loaded : {TRUE}, prompt : BOOLEAN, num_generations : 0..MaxJobs]

InitQwen ==
    /\ WanIdle
    /\ PollIdle
    /\ PageIdle
    /\ MarkIdle
    /\ UprezIdle
    /\ ResolveIdle
    /\ IdentIdle
    /\ qw_config \in QwenConfigs
    /\ qw_pc = "load"
    /\ qw_idx = 1
    /\ qw_active_jobs = <<>>
    /\ qw_creates = <<>>
    /\ qw_faults = 0

\* lines 60-76: a config that cannot be loaded, has no prompt or asks for
\* less than one generation ends the run with sys.exit(1)
QwLoad ==
    /\ qw_pc = "load"
    /\ qw_pc' = IF \/ ~qw_config.loaded
                   \/ ~qw_config.prompt
                   \/ qw_config.num_generations < 1
                THEN "exit" ELSE "submit"
    /\ UNCHANGED <<qw_config, qw_idx, qw_active_jobs, qw_creates, qw_faults>>
    /\ UNCHANGED notQwen

\* where main() goes after the job of generation idx: the next generation,
\* the polling loop, or out when no job was started (lines 122-124)
AfterGeneration(idx, n, started) ==
    IF idx < n THEN "submit" ELSE IF started = <<>> THEN "done" ELSE "poll"

\* lines 92-120: one generation; an exception of the creation is caught
QwSubmit ==
    /\ qw_pc = "submit"
    /\ \E created \in BOOLEAN :
         LET started == IF created
                        THEN Append(qw_active_jobs, <<Len(qw_creates) + 1, qw_idx>>)
                        ELSE qw_active_jobs
         IN  /\ ~created => qw_faults < MaxFaults
             /\ qw_faults' = IF created THEN qw_faults ELSE qw_faults + 1
             /\ qw_creates' = Append(qw_creates, [idx |-> qw_idx, ok |-> created])
             /\ qw_active_jobs' = started
             /\ qw_pc' = AfterGeneration(qw_idx, qw_config.num_generations, started)
    /\ qw_idx' = qw_idx + 1
    /\ UNCHANGED qw_config
    /\ UNCHANGED notQwen

NextQwen ==
    \/ QwLoad
    \/ QwSubmit

\* ------------------------------------ the three scripts, one of them run
InitBatch == InitWan \/ InitUprez \/ InitQwen

NextBatch == NextWan \/ NextUprez \/ NextQwen

SpecBatch == InitBatch /\ [][NextBatch]_vars

\* ------- run_wan_i2v_batch.py 238-272: identifier and request of a unit
\* The values of job.json that reach the request, and the combo of the unit.
\* "absent" is a key job.json does not have.
Settings ==
    [prompt : {"", "a cat"}, combo : {""} \cup ComboPool,
     size : {"absent", "480p"}, seed : {"absent", "7"}]

\* f"{main_prompt} {combo}".strip()
combined_prompt(main_prompt, combo) ==
    IF main_prompt = "" /\ combo = "" THEN <<>>
    ELSE IF main_prompt = "" THEN <<combo>>
    ELSE IF combo = "" THEN <<main_prompt>>
    ELSE <<main_prompt, " ", combo>>

\* lines 248-262: the parameter payload of the job
algo_params(setting, source) ==
    [infinidream_algorithm |-> "wan-i2v",
     prompt |-> combined_prompt(setting.prompt, setting.combo),
     image  |-> source,
     size   |-> setting.size,
     seed   |-> setting.seed]

\* One image is run with one setting, then again with another against the
\* playlist the first run filled.
InitIdent ==
    /\ WanIdle
    /\ PollIdle
    /\ PageIdle
    /\ MarkIdle
    /\ UprezIdle
    /\ QwenIdle
    /\ ResolveIdle
    /\ id_pc = "first"
    /\ \E n \in 1..Len(ImagePool) : id_image = ImagePool[n]
    /\ id_settings \in [1..2 -> Settings]
    /\ id_index = {}
    /\ id_requests = <<>>

\* lines 238-272 for the unit of run k: skipped when its identifier is in the
\* index, else its job is created; the next run reads the identifier back
\* from the description of that job (lines 74-86)
IdUnit(k) ==
    LET setting    == id_settings[k]
        identifier == create_job_identifier(id_image, setting.combo)
        request    == CreateRequest(id_image, <<setting.combo>>, setting.combo)
    IN  IF identifier \in id_index
        THEN UNCHANGED <<id_index, id_requests>>
        ELSE /\ id_requests' = Append(id_requests,
                    [unit |-> k, identifier |-> identifier,
                     prompt |-> algo_params(setting, "source")])
             /\ id_index' = id_index \cup ItemIdentifiers(DreamItem(request))

IdFirst ==
    /\ id_pc = "first"
    /\ IdUnit(1)
    /\ id_pc' = "second"
    /\ UNCHANGED <<id_image, id_settings>>
    /\ UNCHANGED notIdent

IdSecond ==
    /\ id_pc = "second"
    /\ IdUnit(2)
    /\ id_pc' = "done"
    /\ UNCHANGED <<id_image, id_settings>>
    /\ UNCHANGED notIdent

NextIdent ==
    \/ IdFirst
    \/ IdSecond

SpecIdent == InitIdent /\ [][NextIdent]_vars

\* --------------------------- properties of the uprez scan and marking
Max(a, b) == IF a >= b THEN a ELSE b

CeilDiv(a, b) == (a + b - 1) \div b

NoSpace(text) == \A n \in 1..Len(text) : text[n] # " "

\* how often item number n was iterated over
TimesSeen(n) == Cardinality({k \in 1..Len(page_seen) : page_seen[k] = n})

\* every item of the playlist was seen once, every dream collected once
SeenAllOnce ==
    /\ \A n \in 1..Len(source_items) : TimesSeen(n) = 1
    /\ all_dreams = DreamsOf(source_items, [n \in 1..Len(source_items) |-> n])

C4_PaginationComplete ==
    (page_pc = "done" /\ ~page_error /\ take < Len(source_items))
    => /\ Len(page_calls) = CeilDiv(Len(source_items), take)
       /\ \A n \in 1..Len(page_calls) : page_calls[n] = (n - 1) * take
       /\ SeenAllOnce

\* ------------------------------------------ properties of the polling loops
\* C5: a uuid leaves the pending set only at the end of a round whose query
\* for that uuid gave "processed" or "failed"; a uuid whose query raised, or
\* gave any other or no status, is still pending after the round.
C5_RemovedOnlyWhenTerminal ==
    [][/\ \A id \in PendingIds \ PendingIds' :
             queries[id] >= 1 /\ observed[id] \in Terminal
       /\ (poll_pc = "for" /\ poll_pc' = "while") =>
             \A id \in PendingIds :
                 observed[id] \in {"other", "raise"} => id \in PendingIds']_vars

\* C5 witness: after the first round of the qwen-image loop one uuid whose
\* query raised is still pending and one seen terminal is not
C5_Witness ==
    /\ script = "qwen"
    /\ poll_pc = "while"
    /\ rounds = 1
    /\ \E id \in PendingIds : observed[id] = "raise"
    /\ \E id \in ActiveIds \ PendingIds : observed[id] \in Terminal

\* C6: as long as no query shows a terminal status, the loop is never stuck
\* and never runs past max_wait + poll_interval; when it has ended, the
\* pending set is the full set of submitted uuids and a timeout is reported.
C6_DeadlineRespected ==
    (script # "none" /\ seen_terminal = {})
    => /\ elapsed <= max_wait(script) + poll_interval
       /\ poll_pc # "done" => ENABLED NextPoll
       /\ poll_pc = "done" =>
             /\ PendingIds = ActiveIds
             /\ ActiveIds # {} => report = "timeout"

\* C6 witness: a loop over two uuids, none ever terminal, ended by the deadline
C6_Witness ==
    /\ poll_pc = "done"
    /\ seen_terminal = {}
    /\ Cardinality(ActiveIds) >= 2
    /\ PendingIds = ActiveIds
    /\ elapsed >= max_wait(script)
    /\ report = "timeout"

\* C7: when every uuid shows a terminal status in the first round, that
\* round is the only one: each uuid was queried once, nothing was slept, the
\* pending set is empty, no further round can start and no timeout is printed.
C7_OneRoundWhenAllTerminal ==
    (/\ ActiveIds # {}
     /\ rounds = 1
     /\ poll_pc \in {"while", "done"}
     /\ \A id \in ActiveIds : observed[id] \in Terminal)
    => /\ PendingIds = {}
       /\ elapsed = 0
       /\ \A id \in ActiveIds : queries[id] = 1
       /\ ~ENABLED RoundStart
       /\ poll_pc = "while" => ENABLED LoopExit
       /\ poll_pc = "done" => report # "timeout"

\* C7 witness: a loop over two uuids, one processed and one failed in the
\* first round, has ended
C7_Witness ==
    /\ poll_pc = "done"
    /\ rounds = 1
    /\ Cardinality(ActiveIds) >= 2
    /\ \E a, b \in ActiveIds : observed[a] = "processed" /\ observed[b] = "failed"
    /\ PendingIds = {}
    /\ elapsed = 0

\* ----------------------------------------- properties of the wan-i2v run
\* the work units of the run: <<image position, combo position>>
Units == (1..Len(images)) \X (1..Len(combos))

UnitIdentifier(u) == create_job_identifier(images[u[1]], combos[u[2]])

\* units whose identifier is, or is not, in the index built at the start
PresentUnits == {u \in Units : UnitIdentifier(u) \in existing_identifiers}
AbsentUnits  == Units \ PresentUnits

\* the submission loop of this run has ended
Submitted == pc \in {"summary", "done", "polling"}

\* positions of create_calls that created a job
CreatedCalls == {n \in 1..Len(create_calls) : create_calls[n].ok}

CallsFor(u) == {n \in 1..Len(create_calls) :
                  create_calls[n].image = u[1] /\ create_calls[n].combo = u[2]}

UploadRaises == {n \in 1..Len(upload_calls) : upload_calls[n][2] = "raise"}
CreateRaises == {n \in 1..Len(create_calls) : ~create_calls[n].ok}

ActiveSet == {active_dreams[n] : n \in 1..Len(active_dreams)}

\* C1: when the first run ended with every unit skipped or submitted into the
\* configured playlist, and the second run scanned that playlist completely,
\* the second run makes no create_dream_from_prompt call.
C1_SecondRunCreatesNothing ==
    (/\ run = "second"
     /\ prior.pc \in {"done", "polling"}
     /\ prior.playlist_uuid = "P"
     /\ prior.failed_count = 0
     /\ scan = "complete")
    => create_calls = <<>>

\* C2: after a submission loop in which no upload and no creation failed, a
\* creation was issued for exactly the units whose identifier is absent from
\* the index, once each, and skipped_count is the number of units present.
C2_CreatedIffAbsent ==
    (Submitted /\ UploadRaises = {} /\ CreateRaises = {})
    => /\ Len(create_calls) = Cardinality(AbsentUnits)
       /\ skipped_count = Cardinality(PresentUnits)
       /\ \A u \in Units : (CallsFor(u) # {}) <=> (u \in AbsentUnits)

\* C2 witness: a finished loop without failures that both created and skipped
\* units, with a skipped unit in an image that was uploaded
C2_Witness ==
    /\ pc = "summary"
    /\ UploadRaises = {} /\ CreateRaises = {}
    /\ Cardinality(Units) = 4
    /\ Cardinality(PresentUnits) >= 1
    /\ Cardinality(AbsentUnits) >= 2
    /\ \E u \in PresentUnits, v \in AbsentUnits : u[1] = v[1]
    /\ Len(create_calls) = Cardinality(AbsentUnits)
    /\ skipped_count = Cardinality(PresentUnits)

\* C8: every job this run created is in active_dreams, the batch the poller
\* polls, and failed_count counts only the units whose upload or creation
\* failed -- also when add_item_to_playlist raised.
C8_AttachFailureKeepsJob ==
    /\ \A n \in CreatedCalls : create_calls[n].uuid \in ActiveSet
    /\ failed_count = Cardinality(UploadRaises) * Len(combos)
                      + Cardinality(CreateRaises)

\* C9: a unit gets at most one create_dream_from_prompt call, and the jobs
\* the run created are exactly the ones it records as submitted (one per
\* uuid of active_dreams): none exists for a unit counted skipped or failed.
C9_OneJobPerSubmittedUnit ==
    /\ \A u \in Units : Cardinality(CallsFor(u)) <= 1
    /\ {create_calls[n].uuid : n \in CreatedCalls} = ActiveSet
    /\ Len(active_dreams) = Cardinality(ActiveSet)

\* C10: a remote failure while reconciling (get_playlist raising, the item
\* scan cut short) never ends the run before the submission loop.
C10_ReconcileFailureNeverBlocks ==
    scan \in {"unreachable", "partial"} => pc # "exit"

\* ------------------------------------------ properties of the uprez run
\* the source dreams the run made a create_dream_from_prompt call for
UzAttempted == {uz_creates[k].dream : k \in 1..Len(uz_creates)}

\* the submission of this run is over
UzSubmitted == uz_pc \in {"poll", "done"}

\* C11: when the submission of an uprez run is over, every dream item of the
\* source playlist that no marker check saw carrying the marker has had a
\* job-creation attempt, whatever page request or marker check failed.
C11_NeverUnderSubmits ==
    UzSubmitted =>
        \A n \in 1..Len(source_items) :
            (source_items[n] = "dream" /\ uz_checks[n] # "marked")
                => n \in UzAttempted

\* ------------------------------- properties of what the polling loops report
\* C12: when a loop in which a job was seen failed has ended, the final lines
\* give a count for each of the groups succeeded, failed and pending, the
\* three counts add up to the number of submitted jobs, and the failed count
\* is at least 1.
C12_FinalPartition ==
    (poll_pc = "done" /\ seen_failed # {}) =>
        LET counts == FinalCounts(script, PendingIds, downloaded_count)
        IN  /\ {"succeeded", "failed", "pending"} \subseteq DOMAIN counts
            /\ counts["succeeded"] + counts["failed"] + counts["pending"]
                  = Cardinality(ActiveIds)
            /\ counts["failed"] >= 1

\* C13: a round queries every pending uuid once, also after one of them was
\* seen failed: while uuids are unvisited the for loop goes on, at its end
\* every uuid pending in the round has had its one query, and while uuids are
\* pending before the deadline the next round starts.
C13_FailedDoesNotInterrupt ==
    /\ poll_pc = "for" =>
          /\ \A id \in ActiveIds : queries[id] <= 1
          /\ \A id \in ActiveIds \ PendingIds : queries[id] = 0
          /\ ForDone => (ENABLED RoundEnd /\ \A id \in PendingIds : queries[id] = 1)
          /\ ~ForDone => ENABLED (QuerySet \/ QueryList)
    /\ (poll_pc = "while" /\ rounds >= 1) =>
          /\ \A id \in PendingIds :
                queries[id] = 1 /\ observed[id] \in {"other", "raise"}
          /\ (PendingIds # {} /\ elapsed < max_wait(script)) => ENABLED RoundStart

\* C13 witness: a uuid was seen failed in the first round; in the second
\* round another uuid, still not terminal, has been queried again
C13_Witness ==
    /\ poll_pc = "for" /\ ForDone
    /\ rounds = 2
    /\ seen_failed # {}
    /\ seen_failed \cap PendingIds = {}
    /\ \E id \in PendingIds : queries[id] = 1 /\ observed[id] \in {"other", "raise"}

\* --------------------------------------- properties of the URL resolution
\* C14: at most max_retries get_dream calls are made for an uploaded image,
\* each one without a URL but the last is followed by one sleep; the loop
\* never stops the run; with every attempt used up the raw dream uuid becomes
\* the reference, the warning is printed and the combo loop is entered.
C14_ResolutionFailsOpen ==
    /\ Len(rs_log) <= max_retries
    /\ rs_sleeps <= max_retries - 1
    /\ rs_sleeps = Cardinality({k \in 1..Len(rs_log) :
                                   rs_log[k] # "url" /\ k < max_retries})
    /\ rs_pc = "loop" => ENABLED RsAttempt
    /\ rs_pc = "after" => ENABLED RsFinish
    /\ (rs_pc \in {"after", "combo_loop"} /\ rs_image_url = "") =>
          /\ Len(rs_log) = max_retries
          /\ rs_sleeps = max_retries - 1
          /\ ~rs_slept
    /\ (rs_pc = "combo_loop" /\ rs_image_url = "") =>
          rs_source = "dream_uuid" /\ rs_warning
    /\ (rs_pc = "combo_loop" /\ rs_image_url # "") =>
          rs_source = rs_image_url /\ ~rs_warning

\* C14 witness: ten attempts, some without a URL and some raising, are used
\* up and the combo loop is entered with the raw uuid
C14_Witness ==
    /\ rs_pc = "combo_loop"
    /\ Len(rs_log) = max_retries
    /\ \E k \in 1..Len(rs_log) : rs_log[k] = "raise"
    /\ \E k \in 1..Len(rs_log) : rs_log[k] = "nourl"
    /\ rs_source = "dream_uuid"
    /\ rs_warning

\* ----------------------------- properties of the three submission loops
\* the images whose upload_file call raised
UploadFailedImages == {upload_calls[n][1] : n \in UploadRaises}

\* C15: no failed upload_file or create_dream_from_prompt call ends a
\* submission loop: the loop goes on after it, and when it is over every
\* unit that was not found done has had its attempt (wan-i2v: its creation
\* call, or the upload of its image; uprez: its creation call; qwen-image:
\* one creation call per generation).
C15_FailureDoesNotAbort ==
    /\ pc \in {"image_loop", "combo_loop"} => ENABLED (ImageStep \/ ComboStep)
    /\ pc = "crash" => (upload_calls = <<>> /\ create_calls = <<>>)
    /\ Submitted =>
          \A u \in AbsentUnits : CallsFor(u) # {} \/ u[1] \in UploadFailedImages
    /\ uz_pc = "create" => ENABLED UzCreate
    /\ uz_pc = "poll" =>
          \A k \in 1..Len(dreams_to_process) : dreams_to_process[k] \in UzAttempted
    /\ qw_pc = "submit" => ENABLED QwSubmit
    /\ qw_pc \in {"poll", "done"} =>
          /\ Len(qw_creates) = qw_config.num_generations
          /\ \A k \in 1..Len(qw_creates) : qw_creates[k].idx = k

\* C15 witness: a wan-i2v submission loop is over in which a creation call
\* raised and a later unit got its creation call and its job
C15_Witness ==
    /\ pc = "summary"
    /\ \E n \in CreateRaises : \E m \in CreatedCalls : m > n

\* C16: a second run makes no create_dream_from_prompt call for a source
\* dream the first run created a job for, whatever the remote calls after
\* that creation did in the first run (the marker check of the second run
\* itself having read the dream).
C16_RerunCreatesNothing ==
    uz_run = "second" =>
        \A n \in uz_prior :
            (uz_checks = <<>> \/ uz_checks[n] \notin {"raise", "empty"})
                => n \notin UzAttempted

\* ------------------------------------ properties of the derived identifier
\* C17: two units of one image whose parameter payloads differ derive
\* different identifiers, and the second is not taken as done after the
\* first: its job is created too.
C17_SettingsChangeIdentifier ==
    (/\ id_pc = "done"
     /\ algo_params(id_settings[1], "source") # algo_params(id_settings[2], "source"))
    => /\ create_job_identifier(id_image, id_settings[1].combo)
            # create_job_identifier(id_image, id_settings[2].combo)
       /\ \E n \in 1..Len(id_requests) : id_requests[n].unit = 2

\* ------------------------------------- properties of configuration errors
\* this run of the wan-i2v script has made a call on the remote client
WanRemoteCalled ==
    \/ scan # "none"
    \/ playlist_uuid \notin {"None", job_config.playlist_uuid}
    \/ upload_calls # <<>>
    \/ create_calls # <<>>

\* C18: a run that ends with sys.exit(1) for its configuration has made no
\* call on the remote client before, in each of the three scripts.
C18_ConfigErrorBeforeRemote ==
    /\ pc = "exit" => ~WanRemoteCalled
    /\ uz_pc = "exit" => (~uz_remote /\ page_calls = <<>> /\ uz_creates = <<>>)
    /\ qw_pc = "exit" => qw_creates = <<>>

\* ------------------------------ properties of the qwen-image artifact fetch
\* C19: for a job seen processed the URL fetched is the thumbnail when there
\* is one, else the video; with neither, no download is attempted and a
\* warning is printed; in each case the job is not kept for the next round,
\* the for loop goes on with the other jobs, and a job not seen processed is
\* not fetched.
C19_FetchSelection ==
    (script = "qwen" /\ poll_pc # "start") =>
        /\ \A id \in ActiveIds :
             LET f == fetched[id]
             IN  IF observed[id] = "processed"
                 THEN /\ f.dream.thumbnail # "" => f.url = f.dream.thumbnail
                      /\ f.dream.thumbnail = "" => f.url = f.dream.video
                      /\ f.attempted <=> (f.url # "")
                      /\ f.warning <=> (f.url = "")
                      /\ f.downloaded => f.attempted
                      /\ \A n \in 1..Len(remaining) : remaining[n] # id
                      /\ poll_pc = "while" => id \notin PendingIds
                 ELSE f = NoFetch
        /\ (poll_pc = "for" /\ ~ForDone) => ENABLED QueryList
        /\ downloaded_count <= Cardinality(seen_terminal \ seen_failed)

\* C19 witness: in one round a processed job without thumbnail and video got
\* its warning, and the job after it was still queried and fetched from its
\* video field
C19_Witness ==
    /\ script = "qwen"
    /\ poll_pc = "for" /\ ForDone
    /\ \E a, b \in ActiveIds :
         /\ observed[a] = "processed" /\ fetched[a].warning
         /\ observed[b] = "processed" /\ fetched[b].url = "video_url"
         /\ queries[b] = 1
         /\ pending_list[1] = a

\* ------------------------------- properties of the wan-i2v outcome counts
\* C20: the image and combo loops are never stopped by a failed unit, and
\* when the submission summary is printed every unit is counted once:
\* len(active_dreams) + skipped_count + failed_count = total_jobs.
C20_OutcomeAccounting ==
    /\ pc \in {"image_loop", "combo_loop"} =>
          /\ ENABLED (ImageStep \/ ComboStep)
          /\ Len(active_dreams) + skipped_count + failed_count
                <= Len(images) * Len(combos)
    /\ Submitted =>
          Len(active_dreams) + skipped_count + failed_count
             = Len(images) * Len(combos)

\* C20 witness: the summary of a run that started a job, skipped a unit and
\* failed to start another
C20_Witness ==
    /\ pc = "summary"
    /\ Len(active_dreams) >= 1
    /\ skipped_count >= 1
    /\ failed_count >= 1
    /\ Len(images) * Len(combos) = 4

\* -------------------------------------- properties of the identifier text
\* the playlist index after the first unit of SpecIdent was submitted: what
\* get_existing_dream_identifiers reads back from the one job it created
IdWritten == create_job_identifier(id_image, id_settings[1].combo)

\* C21: the description the pipeline writes for an identifier makes
\* get_existing_dream_identifiers return exactly that identifier: after the
\* first unit was created, the index read back from its playlist item is the
\* set holding the identifier create_job_identifier produced.
C21_EmbedExtractRoundTrip ==
    (id_pc = "second" /\ Len(id_requests) = 1) => id_index = {IdWritten}

\* ------------------------------------------ properties of the URL priority
ResolveFields == <<"original_video", "video", "thumbnail">>

\* the value the fetched dream holds under a field name
FieldOf(dream, field) ==
    CASE field = "original_video" -> dream.original_video
      [] field = "video"          -> dream.video
      [] field = "thumbnail"      -> dream.thumbnail

\* C22: a resolved URL is the one of the first field, in the order
\* original_video, video, thumbnail, that holds a string starting with "http"
\* in the response of the last get_dream call; that call is the only one that
\* yielded a URL and no get_dream query follows it; the URL becomes the
\* image reference of the jobs.
C22_PriorityAndStop ==
    rs_image_url # ""
    => /\ \E n \in 1..3 :
             /\ FieldOf(rs_fetched, ResolveFields[n]) = "http"
             /\ \A m \in 1..(n - 1) : FieldOf(rs_fetched, ResolveFields[m]) # "http"
             /\ rs_image_url = "http:" \o ResolveFields[n]
       /\ rs_log # <<>>
       /\ rs_log[Len(rs_log)] = "url"
       /\ \A k \in 1..(Len(rs_log) - 1) : rs_log[k] # "url"
       /\ Len(rs_log) = attempt + 1
       /\ rs_pc = "combo_loop" => rs_source = rs_image_url

\* after two attempts without a URL, a response with a key in original_video
\* and URLs in both video and thumbnail resolved to the video URL
C22_Witness ==
    /\ rs_pc = "combo_loop"
    /\ Len(rs_log) = 3
    /\ rs_fetched = [original_video |-> "key", video |-> "http", thumbnail |-> "http"]
    /\ rs_source = "http:video"

\* ------------------------------------- properties of the wan-i2v submission
\* C23: within one run no two create_dream_from_prompt calls carry the same
\* BATCH_IDENTIFIER in their description, whatever the list of combos.
C23_OneCreatePerIdentifier ==
    \A m, n \in 1..Len(create_calls) :
        m # n => create_calls[m].description # create_calls[n].description

\* the upload_file calls of this run made for image number i
UploadsOf(i) == {n \in 1..Len(upload_calls) : upload_calls[n][1] = i}

\* the create_dream_from_prompt calls of this run made for image number i
CreatesOf(i) == {n \in 1..Len(create_calls) : create_calls[n].image = i}

\* every combo of image number i has its identifier in the index of this run
AllPresent(i) ==
    \A k \in 1..Len(combos) :
        create_job_identifier(images[i], combos[k]) \in existing_identifiers

\* C24: an image all of whose combos are in the index is never uploaded and
\* gets no job; every other image is uploaded at most once in a run; a job is
\* created for an image only after its upload has succeeded; after a failed
\* upload no job is created for any combo of the image.
C24_UploadGuard ==
    pc \in {"image_loop", "combo_loop", "summary", "polling", "done"}
    => \A i \in 1..Len(images) :
          /\ AllPresent(i) => UploadsOf(i) = {} /\ CreatesOf(i) = {}
          /\ Cardinality(UploadsOf(i)) <= 1
          /\ CreatesOf(i) # {}
                => \E n \in UploadsOf(i) : upload_calls[n][2] = "ok"
          /\ (\E n \in UploadsOf(i) : upload_calls[n][2] = "raise")
                => CreatesOf(i) = {}

\* a finished run of two images: one had all its combos in the index and was
\* neither uploaded nor submitted, the upload of the other failed and no job
\* was created for it
C24_Witness ==
    /\ pc \in {"done", "polling"}
    /\ Len(images) = 2
    /\ \E i, j \in 1..2 :
          /\ AllPresent(i) /\ UploadsOf(i) = {} /\ CreatesOf(i) = {}
          /\ ~AllPresent(j)
          /\ \E n \in UploadsOf(j) : upload_calls[n][2] = "raise"
          /\ CreatesOf(j) = {}

\* a run in which an image was uploaded and then a job created for it
C24_UploadedThenCreated ==
    \E i \in 1..Len(images) :
        /\ \E n \in UploadsOf(i) : upload_calls[n][2] = "ok"
        /\ CreatesOf(i) # {}

\* ------------------------------------------ properties of the uprez marking
\* the description of a source dream changes only in the step that created
\* its job, and a creation call that raised is followed by no update_dream
\* call and leaves every description as it was
C25_MarkOnlyAfterCreate ==
    [][/\ \A k \in 1..Len(uz_creates') : ~uz_creates'[k].ok => ~uz_creates'[k].updated
       /\ descriptions' # descriptions
            => /\ uz_pc = "create"
               /\ Len(uz_creates') = Len(uz_creates) + 1
               /\ uz_creates'[Len(uz_creates')].ok
               /\ uz_creates'[Len(uz_creates')].updated
               /\ \A n \in DOMAIN descriptions :
                     descriptions'[n] # descriptions[n]
                        => n = uz_creates'[Len(uz_creates')].dream]_vars

\* C25: the marker is written only after the creation call for the source
\* succeeded in the same run, and a source whose creation call raised is
\* attempted again by a later run: once the second run is through its
\* submission loop, it has issued a creation call for every source whose
\* creation raised in the first run.
C25_FailedSourceRetried ==
    (uz_run = "second" /\ uz_pc \in {"done", "poll"})
    => \A n \in uz_prior_failed : n \in UzAttempted

====
